---- MODULE Spec2Model ----
\* Model of LockHolder (src/query/service/src/locks/lock_holder.rs): one
\* acquisition through start(), the renewal task it spawns, and concurrent
\* shutdown() callers.  Durations are integers (milliseconds).
EXTENDS Integers, Sequences, FiniteSets, TLC

\* ---------------------------------------------------------------- bounds
MaxTtl == 9
MaxLatency == 1
MaxRevision == 2
MaxShutdownCalls == 2
MaxCampaigns == 2

\* ------------------------------------------------------ program constants
InitialIntervalMs == 2
Multiplier == 2

Ttls == 1..MaxTtl
Revisions == 1..MaxRevision
Callers == 1..MaxShutdownCalls
Latencies == 0..MaxLatency

ExtendOutcomes == {"ok", "expired", "transient"}
DeleteOutcomes == {"ok", "transient"}
CreateOutcomes == {"ok", "err"}
LockKeys == {"table-1", "table-2"}

VARIABLES
    callerPc,        \* start(): "idle" | "creating" | "ok" | "err"
    lock_key,        \* req.lock_key of the create request ("" before start())
    ttl,             \* req.ttl of the create request (0 before start())
    createCalls,     \* create_lock_revision calls
    createdRev,      \* res.revision produced by create_lock_revision (0 = none)
    returnedRev,     \* the u64 start() returned (0 = none)
    metricCount,     \* record_created_lock_nums calls
    spawned,         \* GlobalIORuntime::spawn calls
    shutdown_flag,   \* LockHolder.shutdown_flag
    shutdown_notify, \* LockHolder.shutdown_notify: TRUE once notified
    sdPc,            \* shutdown() callers: "idle" | "stored" | "done"
    pc,              \* position of the renewal task
    taskRev,         \* revision carried by the task's extend/delete requests
    sleepDur,        \* rand_sleep_duration of the current iteration
    timerReady,      \* the pending sleep() has elapsed
    backoff,         \* the ExponentialBackoff of the current campaign
    delay,           \* duration handed to the pending backoff sleep()
    sessionPresent,  \* get_session_by_id(&query_id) would return Some
    extendInFlight,  \* extend_lock_revision calls issued and not returned
    deleteInFlight,  \* delete_lock_revision calls issued and not returned
    campaigns,       \* try_extend_lock invocations (saturates at MaxCampaigns)
    campCalls,       \* extend_lock_revision calls of the current campaign
    campFails,       \* transient failures of the current campaign
    campEnd,         \* how the last campaign ended
    firstExtend,     \* outcome of the first extend_lock_revision call
    extendFailed,    \* some extend_lock_revision call has failed
    deleteCalls,     \* delete_lock_revision calls
    deleteOks,       \* successful delete_lock_revision calls
    killCalls,       \* force_kill_query calls
    killCause,       \* the error handed to force_kill_query
    killLookup,      \* result of get_session_by_id on escalation
    taskResult,      \* value the task's future resolved to
    lastWake,        \* the last select() resolution
    lastCall,        \* the request of the last extend/delete call issued
    geo_pc,          \* geo_dist_init: "idle" | "fill_lat" | "fill_lon" | "filled" | "set"
    geo_i,           \* loop variable i of the metric-table fill loop
    wgs84_metric_meters_lut  \* the [MaybeUninit<f32>; 2 * (METRIC_LUT_SIZE + 1)] table

vars == <<callerPc, ttl, createCalls, createdRev, returnedRev, metricCount, spawned,
          shutdown_flag, shutdown_notify, sdPc, pc, taskRev, sleepDur,
          timerReady, backoff, delay, sessionPresent, extendInFlight,
          deleteInFlight, campaigns, campCalls, campFails, campEnd,
          firstExtend, extendFailed, deleteCalls, deleteOks, killCalls,
          killCause, killLookup, taskResult, lastWake, lock_key,
          lastCall, geo_pc, geo_i, wgs84_metric_meters_lut>>

startVars == <<callerPc, lock_key, ttl, createCalls, createdRev, returnedRev, metricCount,
              spawned, taskRev>>
sdVars == <<shutdown_flag, shutdown_notify, sdPc>>
histVars == <<campaigns, campCalls, campFails, campEnd, firstExtend, extendFailed>>
delVars == <<deleteCalls, deleteOks, deleteInFlight>>
killVars == <<killCalls, killCause, killLookup>>
geoVars == <<geo_pc, geo_i, wgs84_metric_meters_lut>>

Min(a, b) == IF a < b THEN a ELSE b

NoBackoff == [elapsed |-> 0, interval |-> 0, budget |-> 0]
NoCall == [op |-> "none", key |-> "", rev |-> 0, ttl |-> 0]
NoWake == [site |-> "none", branch |-> "none", timer |-> FALSE]

\* ------------------------------------------------------------- helpers

\* extend request built with the lower sleep bound instead of the ttl
ExtendLockRevReq_sleepTtl(k, r, t) ==
    [op |-> "extend", key |-> k, rev |-> r, ttl |-> t \div 3]

\* ExtendLockRevReq::new(lock_key.clone(), revision, ttl, false), line 66
ExtendLockRevReq(k, r, t) == [op |-> "extend", key |-> k, rev |-> r, ttl |-> t]

\* DeleteLockRevReq::new(lock_key.clone(), revision), line 65
DeleteLockRevReq(k, r) == [op |-> "delete", key |-> k, rev |-> r, ttl |-> 0]

\* sleep range written half-open: (ttl / 3)..(ttl * 2 / 3)
SleepRange_exclusive(t) == (t \div 3)..(((t * 2) \div 3) - 1)

\* sleep_range = (ttl / 3)..=(ttl * 2 / 3)
SleepRange(t) == (t \div 3)..((t * 2) \div 3)

\* set_backoff(Some(2ms), None, max_retry_elapsed): a fresh policy
set_backoff(init, maxElapsed) ==
    [elapsed |-> 0, interval |-> init, budget |-> maxElapsed]

\* backoff.next_backoff(): Some(delay) while the budget is not exceeded
next_backoff(b) ==
    IF b.elapsed <= b.budget /\ b.elapsed + b.interval <= b.budget
    THEN [some |-> TRUE, delay |-> b.interval,
          next |-> [b EXCEPT !.interval = b.interval * Multiplier]]
    ELSE [some |-> FALSE, delay |-> 0, next |-> b]

\* WatchNotify::notified(): ready once the signal has been fired
Notified(n) == n

\* WatchNotify::notify_one(): fires the signal for every waiter
notify_one(n) == TRUE

\* select with the two futures handed over in the other order, arms unchanged
select_swapped(aReady, bReady) ==
    IF bReady THEN "Left" ELSE IF aReady THEN "Right" ELSE "Pending"

\* select that polls the sleep before the shutdown signal
select_sleep_first(aReady, bReady) ==
    IF bReady THEN "Right" ELSE IF aReady THEN "Left" ELSE "Pending"

\* futures::future::select(a, b): polls a first, then b
select(aReady, bReady) ==
    IF aReady THEN "Left" ELSE IF bReady THEN "Right" ELSE "Pending"

\* ------------------------------------------------- WGS84 metric table

\* const METRIC_LUT_SIZE: usize = 1024
METRIC_LUT_SIZE == 1024

\* the indices of [MaybeUninit<f32>; 2 * (METRIC_LUT_SIZE + 1)]
LutIndices == 0..(2 * (METRIC_LUT_SIZE + 1) - 1)

\* MaybeUninit::uninit(): an entry that holds no written value
Uninit == <<"uninit", 0>>

\* the latitude coefficient computed from the latitude of step i
LatCoeff(i) == <<"lat", i>>

\* the longitude coefficient computed from the latitude of step i
LonCoeff(i) == <<"lon", i>>

\* distance(): k_lat is read at latitude_midpoint_index * 2
LatIndex(i) == i * 2

\* distance(): k_lon is read at latitude_midpoint_index * 2 + 1
LonIndex(i) == i * 2 + 1

\* before geo_dist_init() declares the table there is no table
GeoIdle ==
    /\ geo_pc = "idle"
    /\ geo_i = 0
    /\ wgs84_metric_meters_lut = <<>>

\* ---------------------------------------------------------------- Init
Init ==
    /\ callerPc = "idle"
    /\ ttl = 0
    /\ createCalls = 0
    /\ createdRev = 0
    /\ returnedRev = 0
    /\ metricCount = 0
    /\ spawned = 0
    /\ shutdown_flag = FALSE
    /\ shutdown_notify = FALSE
    /\ sdPc = [c \in Callers |-> "idle"]
    /\ pc = "NotSpawned"
    /\ taskRev = 0
    /\ sleepDur = 0
    /\ timerReady = FALSE
    /\ backoff = NoBackoff
    /\ delay = 0
    /\ sessionPresent = TRUE
    /\ extendInFlight = 0
    /\ deleteInFlight = 0
    /\ campaigns = 0
    /\ campCalls = 0
    /\ campFails = 0
    /\ campEnd = "none"
    /\ firstExtend = "none"
    /\ extendFailed = FALSE
    /\ deleteCalls = 0
    /\ deleteOks = 0
    /\ killCalls = 0
    /\ killCause = "none"
    /\ killLookup = "none"
    /\ taskResult = "none"
    /\ lastWake = NoWake
    /\ lock_key = ""
    /\ lastCall = NoCall
    /\ GeoIdle

\* ------------------------------------------------------------- start()

\* start(), lines 55-60: build the request, issue create_lock_revision
StartCall ==
    /\ callerPc = "idle"
    /\ \E k \in LockKeys : lock_key' = k
    /\ \E t \in Ttls : ttl' = t
    /\ createCalls' = createCalls + 1
    /\ callerPc' = "creating"
    /\ UNCHANGED <<createdRev, returnedRev, metricCount, spawned, taskRev,
                   sdVars, pc, sleepDur, timerReady, backoff, delay,
                   sessionPresent, extendInFlight, histVars, delVars,
                   killVars, taskResult, lastWake, lastCall>>
    /\ UNCHANGED geoVars

\* start() that records the metric and spawns the task before looking at the
\* result of create_lock_revision
StartReturn_spawnFirst ==
    /\ callerPc = "creating"
    /\ metricCount' = metricCount + 1
    /\ spawned' = spawned + 1
    /\ pc' = "LoopCheck"
    /\ \E o \in CreateOutcomes :
        IF o = "err"
        THEN /\ callerPc' = "err"
             /\ UNCHANGED <<createdRev, returnedRev, taskRev>>
        ELSE \E r \in Revisions :
             /\ createdRev' = r
             /\ taskRev' = r
             /\ returnedRev' = r
             /\ callerPc' = "ok"
    /\ UNCHANGED <<lock_key, ttl, createCalls, sdVars, sleepDur, timerReady, backoff,
                   delay, sessionPresent, extendInFlight, histVars, delVars,
                   killVars, taskResult, lastWake, lastCall>>
    /\ UNCHANGED geoVars

\* start(), lines 60-110: create_lock_revision returns; on Ok record the
\* metric, build the requests, spawn the task and return the revision
StartReturn ==
    /\ callerPc = "creating"
    /\ \E o \in CreateOutcomes :
        IF o = "err"
        THEN /\ callerPc' = "err"
             /\ UNCHANGED <<createdRev, returnedRev, metricCount, spawned,
                            taskRev, pc>>
        ELSE \E r \in Revisions :
             /\ createdRev' = r
             /\ metricCount' = metricCount + 1
             /\ taskRev' = r
             /\ spawned' = spawned + 1
             /\ pc' = "LoopCheck"
             /\ returnedRev' = r
             /\ callerPc' = "ok"
    /\ UNCHANGED <<lock_key, ttl, createCalls, sdVars, sleepDur, timerReady, backoff,
                   delay, sessionPresent, extendInFlight, histVars, delVars,
                   killVars, taskResult, lastWake, lastCall>>
    /\ UNCHANGED geoVars

\* ----------------------------------------------------------- shutdown()

\* shutdown() that flips the flag instead of storing true
ShutdownStore_toggle(c) ==
    /\ sdPc[c] = "idle"
    /\ shutdown_flag' = ~shutdown_flag
    /\ sdPc' = [sdPc EXCEPT ![c] = "stored"]
    /\ UNCHANGED <<startVars, shutdown_notify, pc, sleepDur, timerReady,
                   backoff, delay, sessionPresent, extendInFlight, histVars,
                   delVars, killVars, taskResult, lastWake, lastCall>>
    /\ UNCHANGED geoVars

\* shutdown(), line 114: shutdown_flag.store(true)
ShutdownStore(c) ==
    /\ sdPc[c] = "idle"
    /\ shutdown_flag' = TRUE
    /\ sdPc' = [sdPc EXCEPT ![c] = "stored"]
    /\ UNCHANGED <<startVars, shutdown_notify, pc, sleepDur, timerReady,
                   backoff, delay, sessionPresent, extendInFlight, histVars,
                   delVars, killVars, taskResult, lastWake, lastCall>>
    /\ UNCHANGED geoVars

\* shutdown() that stores the flag and never notifies
ShutdownNotify_skip(c) ==
    /\ sdPc[c] = "stored"
    /\ sdPc' = [sdPc EXCEPT ![c] = "done"]
    /\ UNCHANGED <<startVars, shutdown_flag, shutdown_notify, pc, sleepDur,
                   timerReady, backoff, delay, sessionPresent, extendInFlight,
                   histVars, delVars, killVars, taskResult, lastWake, lastCall>>
    /\ UNCHANGED geoVars

\* shutdown(), line 115: shutdown_notify.notify_one()
ShutdownNotify(c) ==
    /\ sdPc[c] = "stored"
    /\ shutdown_notify' = notify_one(shutdown_notify)
    /\ sdPc' = [sdPc EXCEPT ![c] = "done"]
    /\ UNCHANGED <<startVars, shutdown_flag, pc, sleepDur, timerReady,
                   backoff, delay, sessionPresent, extendInFlight, histVars,
                   delVars, killVars, taskResult, lastWake, lastCall>>
    /\ UNCHANGED geoVars

\* ------------------------------------------------------- environment

\* the owning query finishes and leaves the session registry
QueryFinish ==
    /\ sessionPresent
    /\ sessionPresent' = FALSE
    /\ UNCHANGED <<startVars, sdVars, pc, sleepDur, timerReady, backoff,
                   delay, extendInFlight, histVars, delVars, killVars,
                   taskResult, lastWake, lastCall>>
    /\ UNCHANGED geoVars

\* a pending tokio sleep() elapses
TimerFire ==
    /\ pc \in {"RenewWait", "BackoffWait", "DeleteSleep"}
    /\ ~timerReady
    /\ timerReady' = TRUE
    /\ UNCHANGED <<startVars, sdVars, pc, sleepDur, backoff, delay,
                   sessionPresent, extendInFlight, histVars, delVars,
                   killVars, taskResult, lastWake, lastCall>>
    /\ UNCHANGED geoVars

\* ------------------------------------------------------- renewal task

\* line 106 and lines 179-181: leave the renewal loop, build the deletion
\* campaign's policy from Some(ttl) and issue delete_lock_revision
BeginDelete ==
    /\ backoff' = set_backoff(InitialIntervalMs, ttl)
    /\ deleteCalls' = deleteCalls + 1
    /\ deleteInFlight' = deleteInFlight + 1
    /\ lastCall' = DeleteLockRevReq(lock_key, taskRev)
    /\ pc' = "DeleteRPC"

\* escalation that hands force_kill_query a generic error
Escalate_wrongCause(e) ==
    /\ IF sessionPresent
       THEN /\ killCalls' = killCalls + 1
            /\ killCause' = "Internal"
            /\ killLookup' = "found"
       ELSE /\ killLookup' = "missing"
            /\ UNCHANGED <<killCalls, killCause>>
    /\ taskResult' = e
    /\ pc' = "Done"

\* escalation without the `return Err(e)`: the renewal loop goes on
Escalate_noReturn(e) ==
    /\ IF sessionPresent
       THEN /\ killCalls' = killCalls + 1
            /\ killCause' = e
            /\ killLookup' = "found"
       ELSE /\ killLookup' = "missing"
            /\ UNCHANGED <<killCalls, killCause>>
    /\ UNCHANGED taskResult
    /\ pc' = "LoopCheck"

\* escalation that unwraps the session lookup and kills unconditionally
Escalate_killAlways(e) ==
    /\ IF sessionPresent
       THEN /\ killCalls' = killCalls + 1
            /\ killCause' = e
            /\ killLookup' = "found"
       ELSE /\ killLookup' = "missing"
            /\ killCalls' = killCalls + 1
            /\ killCause' = e
    /\ taskResult' = e
    /\ pc' = "Done"

\* lines 94-100: force kill the query if it is still registered, return Err(e)
Escalate(e) ==
    /\ IF sessionPresent
       THEN /\ killCalls' = killCalls + 1
            /\ killCause' = e
            /\ killLookup' = "found"
       ELSE /\ killLookup' = "missing"
            /\ UNCHANGED <<killCalls, killCause>>
    /\ taskResult' = e
    /\ pc' = "Done"

\* renewal loop whose condition is `while shutdown_flag`
LoopCheck_inverted ==
    /\ pc = "LoopCheck"
    /\ IF ~shutdown_flag
       THEN /\ BeginDelete
            /\ UNCHANGED <<sleepDur, timerReady, deleteOks>>
       ELSE /\ \E d \in SleepRange(ttl) :
                 /\ sleepDur' = d
                 /\ timerReady' = (d = 0)
            /\ pc' = "RenewWait"
            /\ UNCHANGED <<backoff, delVars, lastCall>>
    /\ UNCHANGED <<startVars, sdVars, delay, sessionPresent, extendInFlight,
                   histVars, killVars, taskResult, lastWake>>
    /\ UNCHANGED geoVars

\* renewal loop written as a do-while: the flag is first looked at after one
\* iteration has run
LoopCheck_sleepFirst ==
    /\ pc = "LoopCheck"
    /\ IF shutdown_flag /\ lastWake # NoWake
       THEN /\ BeginDelete
            /\ UNCHANGED <<sleepDur, timerReady, deleteOks>>
       ELSE /\ \E d \in SleepRange(ttl) :
                 /\ sleepDur' = d
                 /\ timerReady' = (d = 0)
            /\ pc' = "RenewWait"
            /\ UNCHANGED <<backoff, delVars, lastCall>>
    /\ UNCHANGED <<startVars, sdVars, delay, sessionPresent, extendInFlight,
                   histVars, killVars, taskResult, lastWake>>
    /\ UNCHANGED geoVars

\* lines 72-78: test shutdown_flag; draw rand_sleep_duration and start the
\* renewal-interval sleep, or fall out of the loop to try_delete_lock
LoopCheck ==
    /\ pc = "LoopCheck"
    /\ IF shutdown_flag
       THEN /\ BeginDelete
            /\ UNCHANGED <<sleepDur, timerReady, deleteOks>>
       ELSE /\ \E d \in SleepRange(ttl) :
                 /\ sleepDur' = d
                 /\ timerReady' = (d = 0)
            /\ pc' = "RenewWait"
            /\ UNCHANGED <<backoff, delVars, lastCall>>
    /\ UNCHANGED <<startVars, sdVars, delay, sessionPresent, extendInFlight,
                   histVars, killVars, taskResult, lastWake>>
    /\ UNCHANGED geoVars

\* renewal loop that returns Ok(()) on the shutdown branch instead of breaking
RenewWake_returnOnShutdown ==
    /\ pc = "RenewWait"
    /\ LET r == select(Notified(shutdown_notify), timerReady) IN
       /\ r # "Pending"
       /\ lastWake' = [site |-> "renew", branch |-> r, timer |-> timerReady]
       /\ IF r = "Left"
          THEN /\ pc' = "Done"
               /\ taskResult' = "Ok"
               /\ UNCHANGED <<backoff, delVars, histVars, lastCall>>
          ELSE /\ backoff' = set_backoff(InitialIntervalMs, ttl - sleepDur)
               /\ campaigns' = Min(campaigns + 1, MaxCampaigns)
               /\ campCalls' = 0
               /\ campFails' = 0
               /\ campEnd' = "running"
               /\ pc' = "ExtendCheck"
               /\ UNCHANGED <<delVars, firstExtend, extendFailed, lastCall,
                              taskResult>>
    /\ timerReady' = FALSE
    /\ sleepDur' = 0
    /\ UNCHANGED <<startVars, sdVars, delay, sessionPresent,
                   extendInFlight, killVars>>
    /\ UNCHANGED geoVars

\* renewal loop that builds one policy before the loop and reuses it in every campaign
RenewWake_reusePolicy ==
    /\ pc = "RenewWait"
    /\ LET r == select(Notified(shutdown_notify), timerReady) IN
       /\ r # "Pending"
       /\ lastWake' = [site |-> "renew", branch |-> r, timer |-> timerReady]
       /\ IF r = "Left"
          THEN /\ BeginDelete
               /\ UNCHANGED <<deleteOks, histVars>>
          ELSE /\ backoff' = [backoff EXCEPT !.budget = ttl - sleepDur]
               /\ campaigns' = Min(campaigns + 1, MaxCampaigns)
               /\ campCalls' = 0
               /\ campFails' = 0
               /\ campEnd' = "running"
               /\ pc' = "ExtendCheck"
               /\ UNCHANGED <<delVars, firstExtend, extendFailed, lastCall>>
    /\ timerReady' = FALSE
    /\ sleepDur' = 0
    /\ UNCHANGED <<startVars, sdVars, delay, sessionPresent,
                   extendInFlight, killVars, taskResult>>
    /\ UNCHANGED geoVars

\* renewal loop that hands the whole ttl to try_extend_lock as its retry budget
RenewWake_fullTtlBudget ==
    /\ pc = "RenewWait"
    /\ LET r == select(Notified(shutdown_notify), timerReady) IN
       /\ r # "Pending"
       /\ lastWake' = [site |-> "renew", branch |-> r, timer |-> timerReady]
       /\ IF r = "Left"
          THEN /\ BeginDelete
               /\ UNCHANGED <<deleteOks, histVars>>
          ELSE /\ backoff' = set_backoff(InitialIntervalMs, ttl)
               /\ campaigns' = Min(campaigns + 1, MaxCampaigns)
               /\ campCalls' = 0
               /\ campFails' = 0
               /\ campEnd' = "running"
               /\ pc' = "ExtendCheck"
               /\ UNCHANGED <<delVars, firstExtend, extendFailed, lastCall>>
    /\ timerReady' = FALSE
    /\ sleepDur' = 0
    /\ UNCHANGED <<startVars, sdVars, delay, sessionPresent,
                   extendInFlight, killVars, taskResult>>
    /\ UNCHANGED geoVars

\* lines 79-91 and 126-127: select(notified, sleep) resolves; the shutdown
\* branch breaks to try_delete_lock, the sleep branch enters try_extend_lock
\* with a policy built from Some(ttl - rand_sleep_duration)
RenewWake ==
    /\ pc = "RenewWait"
    /\ LET r == select(Notified(shutdown_notify), timerReady) IN
       /\ r # "Pending"
       /\ lastWake' = [site |-> "renew", branch |-> r, timer |-> timerReady]
       /\ IF r = "Left"
          THEN /\ BeginDelete
               /\ UNCHANGED <<deleteOks, histVars>>
          ELSE /\ backoff' = set_backoff(InitialIntervalMs, ttl - sleepDur)
               /\ campaigns' = Min(campaigns + 1, MaxCampaigns)
               /\ campCalls' = 0
               /\ campFails' = 0
               /\ campEnd' = "running"
               /\ pc' = "ExtendCheck"
               /\ UNCHANGED <<delVars, firstExtend, extendFailed, lastCall>>
    /\ timerReady' = FALSE
    /\ sleepDur' = 0
    /\ UNCHANGED <<startVars, sdVars, delay, sessionPresent,
                   extendInFlight, killVars, taskResult>>
    /\ UNCHANGED geoVars

\* sub-loop that fires extend_lock_revision without awaiting it
ExtendCheck_noAwait ==
    /\ pc = "ExtendCheck"
    /\ IF shutdown_flag
       THEN /\ campEnd' = "shutdown"
            /\ UNCHANGED <<campCalls, extendInFlight, lastCall>>
       ELSE /\ campCalls' = campCalls + 1
            /\ extendInFlight' = extendInFlight + 1
            /\ lastCall' = ExtendLockRevReq(lock_key, taskRev, ttl)
            /\ campEnd' = "ok"
    /\ backoff' = NoBackoff
    /\ pc' = "LoopCheck"
    /\ UNCHANGED <<startVars, sdVars, sleepDur, timerReady, delay,
                   sessionPresent, campaigns, campFails, firstExtend,
                   extendFailed, delVars, killVars, taskResult, lastWake>>
    /\ UNCHANGED geoVars

\* sub-loop written as `loop` with no test of shutdown_flag
ExtendCheck_ignoreFlag ==
    /\ pc = "ExtendCheck"
    /\ IF FALSE
       THEN /\ campEnd' = "shutdown"
            /\ backoff' = NoBackoff
            /\ pc' = "LoopCheck"
            /\ UNCHANGED <<campCalls, extendInFlight, lastCall>>
       ELSE /\ campCalls' = campCalls + 1
            /\ extendInFlight' = extendInFlight + 1
            /\ lastCall' = ExtendLockRevReq(lock_key, taskRev, ttl)
            /\ pc' = "ExtendRPC"
            /\ UNCHANGED <<campEnd, backoff>>
    /\ UNCHANGED <<startVars, sdVars, sleepDur, timerReady, delay,
                   sessionPresent, campaigns, campFails, firstExtend,
                   extendFailed, delVars, killVars, taskResult, lastWake>>
    /\ UNCHANGED geoVars

\* sub-loop whose condition is `while shutdown_flag`
ExtendCheck_inverted ==
    /\ pc = "ExtendCheck"
    /\ IF ~shutdown_flag
       THEN /\ campEnd' = "ok"
            /\ backoff' = NoBackoff
            /\ pc' = "LoopCheck"
            /\ UNCHANGED <<campCalls, extendInFlight, lastCall>>
       ELSE /\ campCalls' = campCalls + 1
            /\ extendInFlight' = extendInFlight + 1
            /\ lastCall' = ExtendLockRevReq(lock_key, taskRev, ttl)
            /\ pc' = "ExtendRPC"
            /\ UNCHANGED <<campEnd, backoff>>
    /\ UNCHANGED <<startVars, sdVars, sleepDur, timerReady, delay,
                   sessionPresent, campaigns, campFails, firstExtend,
                   extendFailed, delVars, killVars, taskResult, lastWake>>
    /\ UNCHANGED geoVars

\* lines 128-129 and 171: test shutdown_flag; issue extend_lock_revision, or
\* leave the sub-loop with Ok(())
ExtendCheck ==
    /\ pc = "ExtendCheck"
    /\ IF shutdown_flag
       THEN /\ campEnd' = "shutdown"
            /\ backoff' = NoBackoff
            /\ pc' = "LoopCheck"
            /\ UNCHANGED <<campCalls, extendInFlight, lastCall>>
       ELSE /\ campCalls' = campCalls + 1
            /\ extendInFlight' = extendInFlight + 1
            /\ lastCall' = ExtendLockRevReq(lock_key, taskRev, ttl)
            /\ pc' = "ExtendRPC"
            /\ UNCHANGED <<campEnd, backoff>>
    /\ UNCHANGED <<startVars, sdVars, sleepDur, timerReady, delay,
                   sessionPresent, campaigns, campFails, firstExtend,
                   extendFailed, delVars, killVars, taskResult, lastWake>>
    /\ UNCHANGED geoVars

\* lines 129-167: extend_lock_revision returns after l ms; Ok breaks,
\* TABLE_LOCK_EXPIRED returns the error, any other error asks the policy for
\* the next delay or returns OCCRetryFailure
ExtendReturn ==
    /\ pc = "ExtendRPC"
    /\ extendInFlight' = extendInFlight - 1
    /\ \E o \in ExtendOutcomes, l \in Latencies :
        LET b  == [backoff EXCEPT !.elapsed = backoff.elapsed + l]
            nb == next_backoff(b)
        IN
        /\ firstExtend' = IF firstExtend = "none" THEN o ELSE firstExtend
        /\ extendFailed' = (extendFailed \/ o # "ok")
        /\ CASE o = "ok" ->
                  /\ campEnd' = "ok"
                  /\ backoff' = NoBackoff
                  /\ pc' = "LoopCheck"
                  /\ UNCHANGED <<campFails, delay, timerReady, killVars, taskResult>>
             [] o = "expired" ->
                  /\ campEnd' = "expired"
                  /\ backoff' = NoBackoff
                  /\ Escalate("TableLockExpired")
                  /\ UNCHANGED <<campFails, delay, timerReady>>
             [] o = "transient" /\ nb.some ->
                  /\ campFails' = campFails + 1
                  /\ backoff' = nb.next
                  /\ delay' = nb.delay
                  /\ timerReady' = FALSE
                  /\ pc' = "BackoffWait"
                  /\ UNCHANGED <<campEnd, killVars, taskResult>>
             [] o = "transient" /\ ~nb.some ->
                  /\ campFails' = campFails + 1
                  /\ campEnd' = "exhausted"
                  /\ backoff' = NoBackoff
                  /\ Escalate("OCCRetryFailure")
                  /\ UNCHANGED <<delay, timerReady>>
    /\ UNCHANGED <<startVars, sdVars, sleepDur, sessionPresent, campaigns,
                   campCalls, delVars, lastWake, lastCall>>
    /\ UNCHANGED geoVars

\* sub-loop that breaks after the backoff sleep instead of retrying
BackoffWake_break ==
    /\ pc = "BackoffWait"
    /\ LET r == select(Notified(shutdown_notify), timerReady) IN
       /\ r # "Pending"
       /\ lastWake' = [site |-> "backoff", branch |-> r, timer |-> timerReady]
       /\ campEnd' = IF r = "Left" THEN "shutdown" ELSE "ok"
    /\ backoff' = NoBackoff
    /\ pc' = "LoopCheck"
    /\ timerReady' = FALSE
    /\ delay' = 0
    /\ UNCHANGED <<startVars, sdVars, sleepDur, sessionPresent,
                   extendInFlight, campaigns, campCalls, campFails,
                   firstExtend, extendFailed, delVars, killVars, taskResult,
                   lastCall>>
    /\ UNCHANGED geoVars

\* sub-loop that returns an abort error when shutdown wins the backoff wait
BackoffWake_errOnShutdown ==
    /\ pc = "BackoffWait"
    /\ LET r == select(Notified(shutdown_notify), timerReady) IN
       /\ r # "Pending"
       /\ lastWake' = [site |-> "backoff", branch |-> r, timer |-> timerReady]
       /\ IF r = "Left"
          THEN /\ campEnd' = "shutdown"
               /\ backoff' = NoBackoff
               /\ Escalate("AbortedQuery")
          ELSE /\ backoff' = [backoff EXCEPT !.elapsed = backoff.elapsed + delay]
               /\ pc' = "ExtendCheck"
               /\ UNCHANGED <<campEnd, killVars, taskResult>>
    /\ timerReady' = FALSE
    /\ delay' = 0
    /\ UNCHANGED <<startVars, sdVars, sleepDur, sessionPresent,
                   extendInFlight, campaigns, campCalls, campFails,
                   firstExtend, extendFailed, delVars, lastCall>>
    /\ UNCHANGED geoVars

\* lines 146-154: select(extend_notified, sleep_gap) resolves; the shutdown
\* branch breaks out of the sub-loop, the sleep branch retries
BackoffWake ==
    /\ pc = "BackoffWait"
    /\ LET r == select(Notified(shutdown_notify), timerReady) IN
       /\ r # "Pending"
       /\ lastWake' = [site |-> "backoff", branch |-> r, timer |-> timerReady]
       /\ IF r = "Left"
          THEN /\ campEnd' = "shutdown"
               /\ backoff' = NoBackoff
               /\ pc' = "LoopCheck"
          ELSE /\ backoff' = [backoff EXCEPT !.elapsed = backoff.elapsed + delay]
               /\ pc' = "ExtendCheck"
               /\ UNCHANGED campEnd
    /\ timerReady' = FALSE
    /\ delay' = 0
    /\ UNCHANGED <<startVars, sdVars, sleepDur, sessionPresent,
                   extendInFlight, campaigns, campCalls, campFails,
                   firstExtend, extendFailed, delVars, killVars, taskResult,
                   lastCall>>
    /\ UNCHANGED geoVars

\* deletion loop that force kills the query when its retries are exhausted
DeleteReturn_escalate ==
    /\ pc = "DeleteRPC"
    /\ deleteInFlight' = deleteInFlight - 1
    /\ \E o \in DeleteOutcomes, l \in Latencies :
        LET b  == [backoff EXCEPT !.elapsed = backoff.elapsed + l]
            nb == next_backoff(b)
        IN
        CASE o = "ok" ->
                  /\ deleteOks' = deleteOks + 1
                  /\ backoff' = NoBackoff
                  /\ taskResult' = "Ok"
                  /\ pc' = "Done"
                  /\ UNCHANGED <<delay, timerReady, killVars>>
          [] o = "transient" /\ nb.some ->
                  /\ backoff' = nb.next
                  /\ delay' = nb.delay
                  /\ timerReady' = FALSE
                  /\ pc' = "DeleteSleep"
                  /\ UNCHANGED <<deleteOks, taskResult, killVars>>
          [] o = "transient" /\ ~nb.some ->
                  /\ backoff' = NoBackoff
                  /\ taskResult' = "OCCRetryFailure"
                  /\ pc' = "Done"
                  /\ killCalls' = killCalls + 1
                  /\ killCause' = "OCCRetryFailure"
                  /\ killLookup' = "found"
                  /\ UNCHANGED <<deleteOks, delay, timerReady>>
    /\ UNCHANGED <<startVars, sdVars, sleepDur, sessionPresent,
                   extendInFlight, histVars, deleteCalls, lastWake, lastCall>>
    /\ UNCHANGED geoVars

\* lines 181-207: delete_lock_revision returns after l ms; Ok ends the task,
\* an error asks the policy for the next delay or returns OCCRetryFailure
DeleteReturn ==
    /\ pc = "DeleteRPC"
    /\ deleteInFlight' = deleteInFlight - 1
    /\ \E o \in DeleteOutcomes, l \in Latencies :
        LET b  == [backoff EXCEPT !.elapsed = backoff.elapsed + l]
            nb == next_backoff(b)
        IN
        CASE o = "ok" ->
                  /\ deleteOks' = deleteOks + 1
                  /\ backoff' = NoBackoff
                  /\ taskResult' = "Ok"
                  /\ pc' = "Done"
                  /\ UNCHANGED <<delay, timerReady>>
          [] o = "transient" /\ nb.some ->
                  /\ backoff' = nb.next
                  /\ delay' = nb.delay
                  /\ timerReady' = FALSE
                  /\ pc' = "DeleteSleep"
                  /\ UNCHANGED <<deleteOks, taskResult>>
          [] o = "transient" /\ ~nb.some ->
                  /\ backoff' = NoBackoff
                  /\ taskResult' = "OCCRetryFailure"
                  /\ pc' = "Done"
                  /\ UNCHANGED <<deleteOks, delay, timerReady>>
    /\ UNCHANGED <<startVars, sdVars, sleepDur, sessionPresent,
                   extendInFlight, histVars, deleteCalls, killVars, lastWake, lastCall>>
    /\ UNCHANGED geoVars

\* lines 191 and 180-181: sleep(duration) elapses, delete_lock_revision is
\* issued again
DeleteWake ==
    /\ pc = "DeleteSleep"
    /\ timerReady
    /\ backoff' = [backoff EXCEPT !.elapsed = backoff.elapsed + delay]
    /\ deleteCalls' = deleteCalls + 1
    /\ deleteInFlight' = deleteInFlight + 1
    /\ lastCall' = DeleteLockRevReq(lock_key, taskRev)
    /\ timerReady' = FALSE
    /\ delay' = 0
    /\ pc' = "DeleteRPC"
    /\ UNCHANGED <<startVars, sdVars, sleepDur, sessionPresent,
                   extendInFlight, histVars, deleteOks, killVars, taskResult,
                   lastWake>>
    /\ UNCHANGED geoVars

\* ------------------------------------------------------- specification
Next ==
    \/ StartCall
    \/ StartReturn
    \/ \E c \in Callers : ShutdownStore(c)
    \/ \E c \in Callers : ShutdownNotify(c)
    \/ QueryFinish
    \/ TimerFire
    \/ LoopCheck
    \/ RenewWake
    \/ ExtendCheck
    \/ ExtendReturn
    \/ BackoffWake
    \/ DeleteReturn
    \/ DeleteWake

Spec == Init /\ [][Next]_vars

\* ------------------------------------------------------ geo_dist_init()

\* let mut wgs84_metric_meters_lut = MaybeUninit::uninit().assume_init():
\* the table is declared with no entry written, and the loop starts at i = 0
DeclareLut ==
    /\ geo_pc = "idle"
    /\ wgs84_metric_meters_lut' = [j \in LutIndices |-> Uninit]
    /\ geo_i' = 0
    /\ geo_pc' = "fill_lat"
    /\ UNCHANGED <<startVars, sdVars, pc, sleepDur, timerReady, backoff,
                   delay, sessionPresent, extendInFlight, histVars, delVars,
                   killVars, taskResult, lastWake, lastCall>>

\* first write of the loop body: wgs84_metric_meters_lut[i].write(lat coeff)
FillLat ==
    /\ geo_pc = "fill_lat"
    /\ geo_i <= METRIC_LUT_SIZE
    /\ wgs84_metric_meters_lut' =
           [wgs84_metric_meters_lut EXCEPT ![geo_i] = LatCoeff(geo_i)]
    /\ geo_pc' = "fill_lon"
    /\ UNCHANGED <<geo_i, startVars, sdVars, pc, sleepDur, timerReady, backoff,
                   delay, sessionPresent, extendInFlight, histVars, delVars,
                   killVars, taskResult, lastWake, lastCall>>

\* second write: wgs84_metric_meters_lut[i * 2 + 1].write(lon coeff), then
\* the loop advances; after i = METRIC_LUT_SIZE the loop is over
FillLon ==
    /\ geo_pc = "fill_lon"
    /\ wgs84_metric_meters_lut' =
           [wgs84_metric_meters_lut EXCEPT ![geo_i * 2 + 1] = LonCoeff(geo_i)]
    /\ geo_i' = geo_i + 1
    /\ geo_pc' = IF geo_i = METRIC_LUT_SIZE THEN "filled" ELSE "fill_lat"
    /\ UNCHANGED <<startVars, sdVars, pc, sleepDur, timerReady, backoff,
                   delay, sessionPresent, extendInFlight, histVars, delVars,
                   killVars, taskResult, lastWake, lastCall>>

\* transmute to [f32; 2 * (METRIC_LUT_SIZE + 1)] and
\* WGS84_METRIC_METERS_LUT.set(..): the table is published as it stands; an
\* entry never written keeps no defined value
SetLut ==
    /\ geo_pc = "filled"
    /\ geo_pc' = "set"
    /\ UNCHANGED <<geo_i, wgs84_metric_meters_lut, startVars, sdVars, pc,
                   sleepDur, timerReady, backoff, delay, sessionPresent,
                   extendInFlight, histVars, delVars, killVars, taskResult,
                   lastWake, lastCall>>

GeoNext ==
    \/ DeclareLut
    \/ FillLat
    \/ FillLon
    \/ SetLut

GeoSpec == Init /\ [][GeoNext]_vars

TypeOK ==
    /\ callerPc \in {"idle", "creating", "ok", "err"}
    /\ pc \in {"NotSpawned", "LoopCheck", "RenewWait", "ExtendCheck",
               "ExtendRPC", "BackoffWait", "DeleteRPC", "DeleteSleep", "Done"}
    /\ shutdown_flag \in BOOLEAN /\ shutdown_notify \in BOOLEAN
    /\ backoff.elapsed >= 0 /\ backoff.budget >= 0

\* --------------------------------------------------------- properties

ShutdownInvoked == \E c \in Callers : sdPc[c] # "idle"
ShutdownCompleted == \E c \in Callers : sdPc[c] = "done"
InWait == pc \in {"RenewWait", "BackoffWait"}
TaskStep == pc' # pc

\* C1 (as stated): if every extension attempt succeeds, the task makes no
\* delete_lock_revision call until shutdown() is invoked, and once it has
\* terminated it has made exactly one deletion call, which succeeded.
C1_Original ==
    ~extendFailed =>
        /\ (deleteCalls > 0 => ShutdownInvoked)
        /\ (pc = "Done" => deleteCalls = 1 /\ deleteOks = 1)

\* C1 (amended): if every extension attempt succeeds, the task makes no
\* delete_lock_revision call until shutdown() is invoked; after shutdown it
\* issues deletion calls until the first one succeeds or the deletion budget is
\* exhausted, so at most one deletion call succeeds, a successful call is the
\* last one, and when no deletion call fails exactly one call is made; the
\* task then terminates with Ok or with the retry-exhaustion error.
C1_DeleteOnlyAfterShutdown ==
    ~extendFailed =>
        /\ (deleteCalls > 0 => ShutdownInvoked /\ shutdown_flag)
        /\ deleteOks <= 1
        /\ (deleteOks = 1 => pc = "Done" /\ taskResult = "Ok")
        /\ (pc = "Done" =>
              /\ deleteCalls >= 1
              /\ deleteInFlight = 0
              /\ killCalls = 0
              /\ taskResult \in {"Ok", "OCCRetryFailure"}
              /\ (taskResult = "Ok" <=> deleteOks = 1)
              /\ (deleteCalls = 1 => (deleteOks = 1 \/ taskResult = "OCCRetryFailure")))

C1_Witness ==
    /\ pc = "Done"
    /\ ~extendFailed
    /\ firstExtend = "ok"
    /\ campaigns = MaxCampaigns
    /\ deleteCalls = 1
    /\ deleteOks = 1

\* C2: if the first extension attempt fails with TABLE_LOCK_EXPIRED, no
\* further extend call is made, delete_lock_revision is never called, and the
\* owning query, when found in the session registry, is force-killed exactly
\* once with that error.
C2_ExpiredFirstExtend ==
    firstExtend = "expired" =>
        /\ pc = "Done"
        /\ campaigns = 1
        /\ campCalls = 1
        /\ extendInFlight = 0
        /\ deleteCalls = 0
        /\ taskResult = "TableLockExpired"
        /\ killLookup \in {"found", "missing"}
        /\ (killLookup = "found" => killCalls = 1 /\ killCause = "TableLockExpired")
        /\ (killLookup = "missing" => killCalls = 0)

C2_Witness ==
    /\ firstExtend = "expired"
    /\ killCalls = 1
    /\ killCause = "TableLockExpired"
    /\ pc = "Done"

\* C3 (as stated): when transient failures exhaust the backoff budget the
\* task stops retrying, force-kills the owning query with OCCRetryFailure,
\* never calls delete_lock_revision and terminates.
C3_Original ==
    campEnd = "exhausted" =>
        /\ pc = "Done"
        /\ deleteCalls = 0
        /\ killCalls = 1
        /\ killCause = "OCCRetryFailure"

\* C3 (amended): when transient failures exhaust the backoff budget the task
\* stops retrying, force-kills the owning query with OCCRetryFailure if the
\* query is still in the session registry (and issues no force-kill
\* otherwise), never calls delete_lock_revision and terminates.
C3_ExhaustedEscalates ==
    campEnd = "exhausted" =>
        /\ pc = "Done"
        /\ campFails >= 1
        /\ campCalls = campFails
        /\ extendInFlight = 0
        /\ deleteCalls = 0
        /\ taskResult = "OCCRetryFailure"
        /\ killLookup \in {"found", "missing"}
        /\ (killLookup = "found" => killCalls = 1 /\ killCause = "OCCRetryFailure")
        /\ (killLookup = "missing" => killCalls = 0)

C3_Witness ==
    /\ campEnd = "exhausted"
    /\ campFails = 3
    /\ killCalls = 1
    /\ killCause = "OCCRetryFailure"

\* C4: in a campaign without shutdown in which extend_lock_revision fails
\* transiently k times and then succeeds, exactly k+1 extend calls are made,
\* no force-kill occurs, and the task goes back to the renewal wait.
C4_RetryThenSuccess ==
    /\ [](campEnd = "ok" =>
            /\ campCalls = campFails + 1
            /\ killCalls = 0
            /\ extendInFlight = 0
            /\ taskResult \notin {"TableLockExpired"})
    /\ [][(campEnd' = "ok" /\ campEnd # "ok") => pc' = "LoopCheck"]_vars
    /\ [][(pc = "LoopCheck" /\ campEnd = "ok" /\ ~shutdown_flag /\ TaskStep)
            => pc' = "RenewWait"]_vars

C4_Witness ==
    /\ campEnd = "ok"
    /\ campFails = 2
    /\ campCalls = 3
    /\ pc = "RenewWait"
    /\ ~shutdown_flag

\* C5: a fired shutdown signal makes a pending renewal-interval or backoff
\* wait resolvable at once, whether or not the delay has elapsed, and the
\* step that resolves it takes the shutdown branch, also when the delay is
\* ready too.
C5_ShutdownWinsWait ==
    /\ []((pc = "RenewWait" /\ shutdown_notify) => ENABLED RenewWake)
    /\ []((pc = "BackoffWait" /\ shutdown_notify) => ENABLED BackoffWake)
    /\ [][(InWait /\ shutdown_notify /\ TaskStep) =>
            /\ lastWake'.branch = "Left"
            /\ (pc = "RenewWait" => pc' = "DeleteRPC")
            /\ (pc = "BackoffWait" => pc' = "LoopCheck" /\ campEnd' = "shutdown")]_vars

C5_Witness ==
    /\ lastWake = [site |-> "backoff", branch |-> "Left", timer |-> TRUE]
    /\ pc = "LoopCheck"

C7_ShutdownIdempotent ==
    [][\A c \in Callers :
        /\ (sdPc[c] = "idle" /\ sdPc'[c] = "stored" /\ shutdown_flag)
              => UNCHANGED <<startVars, shutdown_flag, shutdown_notify, pc,
                             sleepDur, timerReady, backoff, delay,
                             sessionPresent, extendInFlight, histVars,
                             delVars, killVars, taskResult, lastWake, lastCall>>
        /\ (sdPc[c] = "stored" /\ sdPc'[c] = "done" /\ shutdown_notify)
              => UNCHANGED <<startVars, shutdown_flag, shutdown_notify, pc,
                             sleepDur, timerReady, backoff, delay,
                             sessionPresent, extendInFlight, histVars,
                             delVars, killVars, taskResult, lastWake, lastCall>>]_vars

C7_Witness ==
    /\ \A c \in Callers : sdPc[c] = "done"
    /\ shutdown_flag
    /\ shutdown_notify
    /\ pc = "Done"
    /\ deleteOks = 1
    /\ campCalls >= 1

\* C8: if create_lock_revision fails, start() returns the error after that
\* single create call; no metric is recorded, no task is spawned, and no
\* extend, delete or force-kill call is ever made.
C8_CreateFailure ==
    callerPc = "err" =>
        /\ createCalls = 1
        /\ returnedRev = 0
        /\ metricCount = 0
        /\ spawned = 0
        /\ pc = "NotSpawned"
        /\ campCalls = 0 /\ extendInFlight = 0
        /\ deleteCalls = 0
        /\ killCalls = 0

C8_Witness ==
    /\ callerPc = "err"
    /\ createCalls = 1
    /\ \A c \in Callers : sdPc[c] = "done"

\* C9: a successful acquisition returns the revision create_lock_revision
\* produced, records the metric once and spawns one renewal task carrying
\* that revision; there is never more than one renewal task for the lease,
\* and none without a successful acquisition.
C9_OneTaskPerLease ==
    /\ spawned <= 1
    /\ (spawned = 1 <=> callerPc = "ok")
    /\ (pc # "NotSpawned" <=> spawned = 1)
    /\ (callerPc = "ok" =>
          /\ createdRev \in Revisions
          /\ returnedRev = createdRev
          /\ taskRev = createdRev
          /\ createCalls = 1
          /\ metricCount = 1)

C9_Witness ==
    /\ callerPc = "ok"
    /\ returnedRev = MaxRevision
    /\ spawned = 1
    /\ pc = "ExtendRPC"

\* C10: catalog calls of one lease never overlap: at most one call is in
\* flight, and once a delete_lock_revision call has been issued the extension
\* sub-loop has exited: no extend call is in flight or issued any more.
C10_SequentialCalls ==
    /\ extendInFlight + deleteInFlight <= 1
    /\ (extendInFlight = 1 <=> pc = "ExtendRPC")
    /\ (deleteInFlight = 1 <=> pc = "DeleteRPC")
    /\ (deleteCalls > 0 =>
          /\ extendInFlight = 0
          /\ pc \in {"DeleteRPC", "DeleteSleep", "Done"}
          /\ campEnd \in {"none", "ok", "shutdown"})

C10_Witness ==
    /\ deleteInFlight = 1
    /\ campEnd = "shutdown"
    /\ campCalls >= 1
    /\ campFails >= 1

\* C11 (as stated): once the shutdown signal has fired an in-flight catalog
\* call runs to completion, and the task starts no new renewal-interval sleep,
\* no new backoff sleep and no new extend call.
C11_Original ==
    /\ [][(shutdown_notify /\ pc \in {"ExtendRPC", "DeleteRPC"} /\ TaskStep)
            => extendInFlight' + deleteInFlight' = 0]_vars
    /\ [][(shutdown_notify /\ TaskStep) => pc' \notin {"RenewWait", "DeleteSleep"}]_vars
    /\ [][(shutdown_notify /\ lastWake' # lastWake) => lastWake'.branch = "Left"]_vars
    /\ [][shutdown_notify => extendInFlight' <= extendInFlight]_vars

\* C11 (amended): once shutdown has been requested an in-flight catalog call
\* is left to run to completion (nothing but its own return ends it), and the
\* task begins no new renewal-interval wait and issues no new extend call;
\* once the signal has fired no renewal or extension wait is resolved by its
\* timer, so a backoff wait of the extension sub-loop set up after the signal
\* ends through the shutdown branch.  The deletion campaign that follows may
\* still sleep between its retries.
C11_ShutdownStopsNewWork ==
    /\ [][(sdPc' # sdPc) => UNCHANGED <<pc, extendInFlight, deleteInFlight>>]_vars
    /\ [][(shutdown_flag /\ pc = "ExtendRPC" /\ TaskStep)
            => extendInFlight' = extendInFlight - 1 /\ firstExtend' # "none"]_vars
    /\ [][(shutdown_flag /\ pc = "DeleteRPC" /\ TaskStep)
            => deleteInFlight' = deleteInFlight - 1]_vars
    /\ [][(shutdown_flag /\ TaskStep) => pc' # "RenewWait"]_vars
    /\ [][shutdown_flag => /\ extendInFlight' <= extendInFlight
                           /\ (pc # "ExtendRPC" => pc' # "ExtendRPC")
                           /\ (lastCall' # lastCall => lastCall'.op = "delete")]_vars
    /\ [][(shutdown_notify /\ lastWake' # lastWake) => lastWake'.branch = "Left"]_vars

C11_Witness ==
    /\ pc = "ExtendRPC"
    /\ extendInFlight = 1
    /\ shutdown_notify
    /\ \A c \in Callers : sdPc[c] = "done"

\* C12: the release path never escalates: once a delete_lock_revision call
\* has been issued no force-kill has been or will be made, whether deletion
\* succeeds, fails transiently or exhausts its budget; exhaustion only makes
\* the task end with the retry-exhaustion error.
C12_ReleaseNeverEscalates ==
    deleteCalls > 0 =>
        /\ killCalls = 0
        /\ killCause = "none"
        /\ killLookup = "none"
        /\ (pc = "Done" => taskResult \in {"Ok", "OCCRetryFailure"})
        /\ (taskResult = "OCCRetryFailure" => deleteOks = 0)

C12_Witness ==
    /\ pc = "Done"
    /\ taskResult = "OCCRetryFailure"
    /\ deleteCalls = 3
    /\ deleteOks = 0
    /\ killCalls = 0
    /\ sessionPresent

\* C13: a delete_lock_revision call is issued only after shutdown() has been
\* invoked: whenever the task is on the release path the flag has been stored.
C13_ReleaseOnlyViaShutdown ==
    (deleteCalls > 0 \/ pc \in {"DeleteRPC", "DeleteSleep"} \/ lastCall.op = "delete")
        => (ShutdownInvoked /\ shutdown_flag)

C13_Witness ==
    /\ pc = "DeleteRPC"
    /\ deleteCalls = 1
    /\ shutdown_flag
    /\ ~shutdown_notify
    /\ campEnd = "ok"

\* C14: when a campaign ends fatally and the owning query is not in the
\* session registry, no force-kill is issued and the task still terminates
\* with the error, without any delete_lock_revision call.
C14_LookupMiss ==
    killLookup = "missing" =>
        /\ campEnd \in {"expired", "exhausted"}
        /\ killCalls = 0
        /\ killCause = "none"
        /\ pc = "Done"
        /\ taskResult = (IF campEnd = "expired" THEN "TableLockExpired"
                                              ELSE "OCCRetryFailure")
        /\ deleteCalls = 0
        /\ ~sessionPresent

C14_Witness ==
    /\ killLookup = "missing"
    /\ campEnd = "expired"
    /\ campFails = 1
    /\ pc = "Done"

\* C15: every extend and delete call carries the lock_key of the create
\* request and the revision create_lock_revision returned, every extend call
\* carries the original ttl, and a successful extension changes neither the
\* revision nor the key used by later calls.
C15_FixedIdentity ==
    /\ [](lastCall.op # "none" =>
            /\ lastCall.key = lock_key
            /\ lastCall.key \in LockKeys
            /\ lastCall.rev = createdRev
            /\ lastCall.rev = returnedRev
            /\ (lastCall.op = "extend" => lastCall.ttl = ttl))
    /\ [](pc # "NotSpawned" => taskRev = createdRev)
    /\ [][pc # "NotSpawned" => UNCHANGED <<lock_key, ttl, createdRev, taskRev>>]_vars

C15_Witness ==
    /\ lastCall = ExtendLockRevReq("table-2", MaxRevision, MaxTtl)
    /\ campaigns = MaxCampaigns
    /\ campEnd = "running"
    /\ firstExtend = "ok"

\* C16: for every ttl > 0 the sleep range is not empty, so a duration can
\* always be drawn, and every drawn duration d satisfies
\* ttl/3 <= d <= ttl*2/3 in integer arithmetic.
C16_SleepInRange ==
    /\ (pc # "NotSpawned" => ttl > 0)
    /\ (ttl > 0 => ttl \div 3 <= (ttl * 2) \div 3)
    /\ ((pc = "LoopCheck" /\ ~shutdown_flag) => ENABLED LoopCheck)
    /\ (pc = "RenewWait" =>
          /\ ttl \div 3 <= sleepDur
          /\ sleepDur <= (ttl * 2) \div 3
          /\ 3 * sleepDur <= 2 * ttl
          /\ 3 * sleepDur + 2 >= ttl)

C16_Witness ==
    /\ pc = "RenewWait"
    /\ ttl = 1
    /\ sleepDur = 0
    /\ timerReady

\* C17: when shutdown wins a backoff wait the sub-loop returns Ok without a
\* further extend call, no force-kill occurs, and the task's next catalog
\* call is delete_lock_revision.
C17_ShutdownDuringBackoff ==
    /\ [][(pc = "BackoffWait" /\ lastWake' # lastWake /\ lastWake'.branch = "Left")
            => /\ campEnd' = "shutdown"
               /\ pc' = "LoopCheck"
               /\ UNCHANGED <<campCalls, extendInFlight, killVars, taskResult, lastCall>>]_vars
    /\ [](campEnd = "shutdown" =>
            /\ shutdown_flag
            /\ extendInFlight = 0
            /\ killCalls = 0
            /\ pc \in {"LoopCheck", "DeleteRPC", "DeleteSleep", "Done"}
            /\ taskResult \in {"none", "Ok", "OCCRetryFailure"})
    /\ [][campEnd = "shutdown" =>
            /\ campEnd' = "shutdown"
            /\ campCalls' = campCalls
            /\ (lastCall' # lastCall => lastCall'.op = "delete")]_vars
    /\ [][(campEnd = "shutdown" /\ pc = "LoopCheck" /\ TaskStep)
            => pc' = "DeleteRPC" /\ deleteCalls' = 1]_vars

C17_Witness ==
    /\ campEnd = "shutdown"
    /\ lastWake = [site |-> "backoff", branch |-> "Left", timer |-> FALSE]
    /\ pc = "DeleteRPC"
    /\ lastCall.op = "delete"
    /\ campFails = 1

\* The runtime keeps polling the spawned task, every catalog call returns,
\* every pending sleep elapses, and a shutdown() call that has stored the flag
\* goes on to notify.  The task is at one position at a time, so at most one
\* of its steps is enabled and one fairness condition covers them all.
TaskNext ==
    \/ LoopCheck
    \/ RenewWake
    \/ ExtendCheck
    \/ ExtendReturn
    \/ BackoffWake
    \/ DeleteReturn
    \/ DeleteWake

Fairness ==
    /\ WF_vars(TaskNext)
    /\ WF_vars(TimerFire)
    /\ \A c \in Callers : WF_vars(ShutdownNotify(c))

\* The state in which start() has just returned Ok: the revision is created,
\* the metric recorded and the task spawned but not yet polled.
LiveInit ==
    /\ callerPc = "ok"
    /\ lock_key = "table-1"
    /\ ttl \in Ttls
    /\ createCalls = 1
    /\ createdRev = 1
    /\ returnedRev = 1
    /\ metricCount = 1
    /\ spawned = 1
    /\ taskRev = 1
    /\ pc = "LoopCheck"
    /\ shutdown_flag = FALSE
    /\ shutdown_notify = FALSE
    /\ sdPc = [c \in Callers |-> "idle"]
    /\ sleepDur = 0
    /\ timerReady = FALSE
    /\ backoff = NoBackoff
    /\ delay = 0
    /\ sessionPresent = TRUE
    /\ extendInFlight = 0
    /\ deleteInFlight = 0
    /\ campaigns = 0
    /\ campCalls = 0
    /\ campFails = 0
    /\ campEnd = "none"
    /\ firstExtend = "none"
    /\ extendFailed = FALSE
    /\ deleteCalls = 0
    /\ deleteOks = 0
    /\ killCalls = 0
    /\ killCause = "none"
    /\ killLookup = "none"
    /\ taskResult = "none"
    /\ lastWake = NoWake
    /\ lastCall = NoCall
    /\ GeoIdle

LiveNext ==
    \/ \E c \in Callers : ShutdownStore(c)
    \/ \E c \in Callers : ShutdownNotify(c)
    \/ QueryFinish
    \/ TimerFire
    \/ LoopCheck
    \/ RenewWake
    \/ ExtendCheck
    \/ ExtendReturn
    \/ BackoffWake
    \/ DeleteReturn
    \/ DeleteWake

FairSpec == LiveInit /\ [][LiveNext]_vars /\ Fairness

FatalEnd == campEnd \in {"expired", "exhausted"}
Releasing == pc \in {"DeleteRPC", "DeleteSleep"}

\* C18: under fairness, once shutdown() has been invoked the spawned task
\* eventually terminates; if no campaign ended fatally it has issued at least
\* one delete_lock_revision call by then; and the deletion loop always ends,
\* on its first success or with the retry-exhaustion error.
C18_ShutdownTerminates ==
    /\ ((shutdown_flag /\ pc # "NotSpawned") ~> pc = "Done")
    /\ (Releasing ~> pc = "Done")
    /\ []((pc = "Done" /\ ~FatalEnd) => (deleteCalls >= 1 /\ shutdown_flag))
    /\ [][(Releasing /\ pc' = "Done") =>
            \/ (taskResult' = "Ok" /\ deleteOks' = 1 /\ deleteOks = 0)
            \/ (taskResult' = "OCCRetryFailure" /\ deleteOks' = 0)]_vars

C18_Witness ==
    /\ pc = "Done"
    /\ shutdown_flag
    /\ campEnd = "shutdown"
    /\ deleteCalls = 2
    /\ deleteOks = 1
    /\ taskResult = "Ok"

\* C19: while shutdown() has not been invoked and no campaign has ended
\* fatally, the spawned task has not terminated and has issued no delete; under
\* fairness a successful extension leads back to the renewal wait, and
\* extend_lock_revision calls are issued again and again for as long as
\* neither happens.
C19_KeepsRenewing ==
    /\ []((pc # "NotSpawned" /\ ~shutdown_flag /\ ~FatalEnd) =>
            /\ pc # "Done"
            /\ ~Releasing
            /\ deleteCalls = 0
            /\ taskResult = "none")
    /\ ((pc = "LoopCheck" /\ campEnd = "ok") ~> (pc = "RenewWait" \/ shutdown_flag))
    /\ []<>(pc = "NotSpawned" \/ shutdown_flag \/ FatalEnd \/ pc = "ExtendRPC")

C19_Witness ==
    /\ pc = "ExtendRPC"
    /\ campaigns = MaxCampaigns
    /\ campFails = 1
    /\ ~shutdown_flag
    /\ ~ShutdownInvoked
    /\ ~FatalEnd

\* C20: every campaign starts from a freshly built policy: an extension
\* campaign begins with no elapsed time, the initial interval and the budget
\* ttl - rand_sleep_duration, the deletion campaign with no elapsed time, the
\* initial interval and the budget ttl, whatever earlier campaigns consumed.
C20_FreshBackoff ==
    /\ [][(campEnd' = "running" /\ campEnd # "running") =>
            backoff' = [elapsed |-> 0, interval |-> InitialIntervalMs,
                        budget |-> ttl - sleepDur]]_vars
    /\ [][(deleteCalls = 0 /\ deleteCalls' = 1) =>
            backoff' = [elapsed |-> 0, interval |-> InitialIntervalMs,
                        budget |-> ttl]]_vars
    /\ []((pc = "ExtendCheck" /\ campCalls = 0) =>
            /\ backoff.elapsed = 0
            /\ backoff.interval = InitialIntervalMs
            /\ next_backoff(backoff).some = (InitialIntervalMs <= backoff.budget))

C20_Witness ==
    /\ pc = "ExtendCheck"
    /\ campaigns = MaxCampaigns
    /\ campCalls = 0
    /\ extendFailed
    /\ backoff = [elapsed |-> 0, interval |-> InitialIntervalMs, budget |-> 6]

\* C21: for every ttl > 0 and every sampled sleep d in [ttl/3, ttl*2/3], the
\* budget handed to the extension campaign is ttl - d; it does not underflow
\* and lies between ttl - ttl*2/3 and ttl - ttl/3, so the sleep plus the retry
\* budget never exceeds ttl; the deletion campaign's budget is exactly ttl.
C21_BudgetWithinTtl ==
    /\ [][(campEnd' = "running" /\ campEnd # "running") =>
            /\ ttl > 0
            /\ sleepDur \in SleepRange(ttl)
            /\ sleepDur <= ttl
            /\ backoff'.budget = ttl - sleepDur
            /\ backoff'.budget >= 0
            /\ ttl - ((ttl * 2) \div 3) <= backoff'.budget
            /\ backoff'.budget <= ttl - (ttl \div 3)
            /\ sleepDur + backoff'.budget <= ttl]_vars
    /\ [](pc \in {"ExtendCheck", "ExtendRPC", "BackoffWait"} =>
            /\ ttl - ((ttl * 2) \div 3) <= backoff.budget
            /\ backoff.budget <= ttl - (ttl \div 3))
    /\ [](Releasing => backoff.budget = ttl)

C21_Witness ==
    /\ pc = "ExtendCheck"
    /\ campCalls = 0
    /\ ttl = 8
    /\ backoff.budget = 3
    /\ lastWake.site = "renew" /\ lastWake.branch = "Right"

\* C22: escalation and release are mutually exclusive and escalation happens
\* at most once: the task issues at most one force-kill, and a task that has
\* issued a force-kill or ended an extension campaign fatally has issued no
\* delete_lock_revision call and never issues one.
C22_EscalateXorRelease ==
    /\ killCalls <= 1
    /\ (killCalls > 0 \/ FatalEnd) =>
            /\ deleteCalls = 0
            /\ deleteInFlight = 0
            /\ pc = "Done"
            /\ taskResult \in {"TableLockExpired", "OCCRetryFailure"}
    /\ deleteCalls > 0 => (killCalls = 0 /\ ~FatalEnd)

C22_Witness ==
    /\ killCalls = 1
    /\ FatalEnd
    /\ pc = "Done"
    /\ deleteCalls = 0
    /\ shutdown_flag /\ shutdown_notify
    /\ \A c \in Callers : sdPc[c] = "done"

C24_ShutdownBeforeFirstStep ==
    /\ []((shutdown_flag /\ callerPc = "idle") => ENABLED StartCall)
    /\ []((shutdown_flag /\ callerPc = "creating") => ENABLED StartReturn)
    /\ [][(shutdown_flag /\ callerPc = "creating" /\ callerPc' = "ok") =>
            /\ createdRev' \in Revisions
            /\ returnedRev' = createdRev'
            /\ spawned' = spawned + 1
            /\ pc' = "LoopCheck"]_vars
    /\ [][(pc = "LoopCheck" /\ lastWake = NoWake /\ shutdown_flag /\ TaskStep) =>
            /\ pc' = "DeleteRPC"
            /\ deleteCalls' = 1
            /\ lastCall' = DeleteLockRevReq(lock_key, createdRev)
            /\ extendInFlight' = 0
            /\ campaigns' = 0]_vars
    /\ []((deleteCalls > 0 /\ lastWake = NoWake) =>
            /\ campaigns = 0
            /\ campCalls = 0
            /\ firstExtend = "none"
            /\ extendInFlight = 0
            /\ lastCall = DeleteLockRevReq(lock_key, createdRev))

C24_Witness ==
    /\ callerPc = "ok"
    /\ spawned = 1
    /\ pc = "Done"
    /\ taskResult = "Ok"
    /\ lastWake = NoWake
    /\ campaigns = 0
    /\ firstExtend = "none"
    /\ deleteOks = 1
    /\ lastCall = DeleteLockRevReq(lock_key, createdRev)
    /\ createdRev = MaxRevision

\* C25: once geo_dist_init's fill loop over i in 0..=METRIC_LUT_SIZE is over,
\* every one of the 2 * (METRIC_LUT_SIZE + 1) entries of the WGS84 metric
\* table has been written, with the latitude coefficient of step i at index
\* 2 * i and the longitude coefficient of step i at index 2 * i + 1, where
\* distance() reads them.
C25_TableFilled ==
    geo_pc \in {"filled", "set"} =>
        /\ {j \in LutIndices : wgs84_metric_meters_lut[j] # Uninit} = LutIndices
        /\ \A i \in 0..METRIC_LUT_SIZE :
            /\ wgs84_metric_meters_lut[LatIndex(i)] = LatCoeff(i)
            /\ wgs84_metric_meters_lut[LonIndex(i)] = LonCoeff(i)
====
